---- MODULE Spec2Model ----
(***************************************************************************)
(* Model of the customer-reviews-iac repository:                           *)
(*   - the Jenkins pipeline (Jenkinsfile) that synthesizes and deploys the *)
(*     CDK app, and the CDK app / stack that name the resources;           *)
(*   - the EventBridge rule of the stack and the reviews Lambda it         *)
(*     invokes;                                                            *)
(*   - the Fastly service configured by the documented VCL, in front of    *)
(*     the S3 bucket the Lambda writes to.                                 *)
(* Strings are TLA+ strings; concatenation is \o, as in the template       *)
(* literals and shell expansions of the source.                            *)
(***************************************************************************)
EXTENDS Integers, Sequences, FiniteSets, TLC

\* ------------------------------------------------------------------ bounds

\* Pipeline runs explored (each run may deploy one stack into the account).
MaxRuns == 3
\* Minutes of wall-clock time explored by the runtime specification.
MaxTime == 12
\* Cache lifetime of an object stored by the edge, in minutes.
CacheTTL == 3

\* ------------------------------------------------------------ string helpers

\* s contains sub as a contiguous substring.
Contains(s, sub) ==
    \E i \in 1..(Len(s) - Len(sub) + 1) : SubSeq(s, i, i + Len(sub) - 1) = sub

\* ------------------------------------------------------- values of the inputs

\* Groovy null / JavaScript undefined: an absent value.
Null == "<null>"
Undefined == "<undefined>"

\* Values the build parameter PR_NUMBER and a pre-set env.PR_NUMBER can take.
ParamValues == {Null, "", "default", "7", "12", "7-pr-12"}
EnvValues == {Null, "12"}
\* env.BOOTSTRAP_CDK as set on the agent.
BootstrapValues == {Null, "true"}

\* The AWS account the credentials 'aws-credentials' belong to.
Account == "014125596611"

\* Contents of config/pr-{PR_NUMBER}/config.json in the checked-out repository:
\* absent, or a JSON object whose "stackName" field has one of these values.
NoConfig == [exists |-> FALSE, stackName |-> ""]
ConfigFiles ==
    {NoConfig} \cup
    {[exists |-> TRUE, stackName |-> n] :
        n \in {"CustomerReviewsIacStack-7", "reviews-stack"}}

\* ------------------------------------------------------------- the CDK app

\* Groovy elvis operator a ?: b (null and the empty string are false).
Elvis(a, b) == IF a = Null \/ a = "" THEN b ELSE a

\* environment { PR_NUMBER = "${params.PR_NUMBER ?: env.PR_NUMBER ?: 'default'}" }
PipelinePrNumber(param, envv) == Elvis(param, Elvis(envv, "default"))

\* tryGetContext('prNumber') || 'default' (undefined and '' are falsy).
ContextPrNumber(ctx) == IF ctx = Undefined \/ ctx = "" THEN "default" ELSE ctx

\* A suffix that ignores the PR number (every deployment shares its names).
PrSuffixNone(prNumber) == ""

\* const prSuffix = prNumber !== 'default' ? `-pr-${prNumber}` : '';
PrSuffix(prNumber) == IF prNumber # "default" THEN "-pr-" \o prNumber ELSE ""

\* bin: stackName = prNumber !== 'default' ? `CustomerReviewsIacStack-${prNumber}`
\*                                         : 'CustomerReviewsIacStack'
AppStackName(ctx) ==
    LET prNumber == ContextPrNumber(ctx)
    IN  IF prNumber # "default" THEN "CustomerReviewsIacStack-" \o prNumber
        ELSE "CustomerReviewsIacStack"

\* The stack the app instantiates for a context value: its name and the
\* physical names of its named resources.
CustomerReviewsIacStack(ctx) ==
    LET prNumber == ContextPrNumber(ctx)
        prSuffix == PrSuffix(prNumber)
    IN  [ prNumber      |-> prNumber,
          stackName     |-> AppStackName(ctx),
          bucketName    |-> "customer-reviews-fragments" \o prSuffix \o "-" \o Account,
          mockApiLambda |-> "mock-api-lambda" \o prSuffix,
          restApiName   |-> "CustomerReviewsMockAPI" \o prSuffix,
          reviewsLambda |-> "customer-reviews-lambda" \o prSuffix ]

\* The names a deployed stack occupies in the account.
ResourceNames(s) ==
    {s.stackName, s.bucketName, s.mockApiLambda, s.restApiName, s.reviewsLambda}

\* ------------------------------------------------------------ the pipeline

\* stages { ... } in declared order.
Stages ==
    << "Checkout Infrastructure Code", "Checkout App Code", "Setup Node.js",
       "Install Dependencies", "Read PR Configuration", "Bootstrap CDK",
       "Synthesize CDK", "Deploy CDK Stack", "Display Stack Outputs" >>

\* when { expression { env.PR_NUMBER == 'default' || env.BOOTSTRAP_CDK == 'true' } }
BootstrapEnabled(pr, bootstrap) == pr = "default" \/ bootstrap = "true"

\* Whether a stage's `when` lets it run (only Bootstrap CDK has one).
StageRuns(i, pr, bootstrap) ==
    Stages[i] = "Bootstrap CDK" => BootstrapEnabled(pr, bootstrap)

RECURSIVE NextStage(_, _, _)
\* The first stage after position i that runs, or Len(Stages) + 1 at the end.
NextStage(i, pr, bootstrap) ==
    IF i + 1 > Len(Stages) THEN Len(Stages) + 1
    ELSE IF StageRuns(i + 1, pr, bootstrap) THEN i + 1
    ELSE NextStage(i + 1, pr, bootstrap)

\* The shell's STACK_NAME in 'Deploy CDK Stack' and 'Display Stack Outputs':
\*   if [ -f "${CONFIG_FILE}" ]; then STACK_NAME=$(... grep '"stackName"' ...)
\*   else STACK_NAME="CustomerReviewsIacStack-${PR_NUMBER}"
ShellStackName(pr, config) ==
    IF config.exists THEN config.stackName
    ELSE "CustomerReviewsIacStack-" \o pr

\* A step whose failure is swallowed: the stage goes on whatever the CLI says.
StepExitSwallowed(ok) == 0

\* `cmd || { echo ...; exit 1 }`, and sh's exit on a failing last command.
StepExit(ok) == IF ok THEN 0 ELSE 1

None == "<none>"

\* ------------------------------------------------- the rule and the Lambda

\* schedule: events.Schedule.rate(cdk.Duration.minutes(5))
RateMinutes == 5

\* hourlyRule.addTarget(new targets.LambdaFunction(reviewsLambda))
RuleTargets == {"ReviewsLambda"}

\* Objects of the bucket: index.html and the two product fragments.
IndexKey == "/index.html"
FragmentKeys == {"/reviews/product-a.html", "/reviews/product-b.html"}
Keys == {IndexKey} \cup FragmentKeys

\* A body is a sequence of parts: literal markup ([esi |-> FALSE, v |-> text])
\* or an <esi:include src=v/> tag ([esi |-> TRUE, v |-> src]).
Text(t) == [esi |-> FALSE, v |-> t]
EsiInclude(src) == [esi |-> TRUE, v |-> src]

NoObject == [exists |-> FALSE, contentType |-> "", body |-> << >>]

\* Content-Type the Lambda may store index.html with (S3 serves what was put;
\* binary/octet-stream when none was given).
IndexContentTypes == {"text/html", "text/html; charset=utf-8", "binary/octet-stream"}

\* One run of the reviews Lambda: renders product-a.html, product-b.html and
\* index.html (with ESI tags) and uploads all of them.
LambdaUpload(indexType) ==
    [k \in Keys |->
        IF k = IndexKey
        THEN [exists |-> TRUE, contentType |-> indexType,
              body |-> << Text("header"),
                          EsiInclude("/reviews/product-a.html"),
                          EsiInclude("/reviews/product-b.html"),
                          Text("footer") >>]
        ELSE [exists |-> TRUE, contentType |-> "text/html",
              body |-> << Text("reviews:" \o k) >>]]

\* ----------------------------------------------------------- the Fastly VCL

\* URLs a client asks the service for.
ClientUrls == {"/", "", "/index.html", "/reviews/product-a.html"}

\* sub vcl_recv: root path to /index.html, backend s3_origin, return (pass).
VclRecv(url) ==
    [ url     |-> IF url = "/" \/ url = "" THEN "/index.html" ELSE url,
      backend |-> "s3_origin",
      action  |-> "pass" ]

\* A vcl_fetch that never turns ESI on.
VclFetchNoEsi(contentType) == FALSE

\* sub vcl_fetch: if (beresp.http.Content-Type ~ "text/html") do_esi = true
VclFetch(contentType) == Contains(contentType, "text/html")

\* The S3 origin's answer for a key.
OriginResponse(bucket, key) ==
    IF key \in Keys /\ bucket[key].exists
    THEN [status |-> 200, contentType |-> bucket[key].contentType,
          body |-> bucket[key].body]
    ELSE [status |-> 404, contentType |-> "application/xml",
          body |-> << Text("NoSuchKey") >>]

NoEntry == [valid |-> FALSE, expires |-> 0,
            resp |-> [status |-> 0, contentType |-> "", body |-> << >>]]

\* The edge answers from its cache only on a lookup (never on pass) and only
\* while the stored object is fresh.
CacheHit(store, key, t) ==
    /\ VclRecv(key).action = "lookup"
    /\ store[key].valid
    /\ t < store[key].expires

\* The backend response the edge works with for a (normalised) URL.
EdgeObject(store, bucket, key, t) ==
    IF CacheHit(store, key, t) THEN store[key].resp
    ELSE OriginResponse(bucket, key)

RECURSIVE EsiProcess(_, _, _, _)
\* ESI processing of a body: every include tag is replaced by the body the
\* edge gets for its src (a sub-request through vcl_recv).
EsiProcess(body, store, bucket, t) ==
    IF body = << >> THEN << >>
    ELSE LET p == Head(body)
             rest == EsiProcess(Tail(body), store, bucket, t)
         IN  IF p.esi
             THEN EdgeObject(store, bucket, VclRecv(p.v).url, t).body \o rest
             ELSE << p >> \o rest

\* The srcs of the include tags of a body.
IncludeSrcs(body) == {VclRecv(body[i].v).url : i \in {j \in DOMAIN body : body[j].esi}}

NoRequest == [url |-> None, time |-> 0, status |-> 0, contentType |-> "",
              do_esi |-> FALSE, body |-> << >>, fetched |-> {}, priorFetch |-> -1]

VARIABLES
    \* ---- pipeline
    runs,          \* builds started so far
    pc,            \* 0: no build running; i: stage Stages[i] is about to run
    prNumber,      \* env.PR_NUMBER of the running build
    bootstrapCdk,  \* env.BOOTSTRAP_CDK of the running build
    config,        \* config/pr-{PR_NUMBER}/config.json of the checkout
    log,           \* the stages executed in this build, in order
    result,        \* None while running, then "SUCCESS" or "FAILURE"
    synthCtx,      \* prNumber context of the successful `cdk synth`, or None
    deployCalls,   \* number of `cdk deploy` invocations in this build
    deployCtx,     \* prNumber context of the `cdk deploy` invocation, or None
    deployedStack, \* name of the stack `cdk deploy` deployed, or None
    announced,     \* STACK_NAME echoed by 'Deploy CDK Stack', or None
    queried,       \* STACK_NAME given to describe-stacks, or None
    account,       \* the stacks deployed in the AWS account
    \* ---- runtime of one deployed stack
    now,           \* minutes since the rule was created
    lastFired,     \* time the rule last fired (its creation, before the first)
    prevFired,     \* time of the firing before that, or -1
    invoked,       \* the targets invoked by the last firing
    s3,            \* the bucket: key -> object
    cache,         \* the edge's object store: key -> entry
    fetchedAt,     \* key -> time of the last origin fetch that returned it, or -1
    lastReq        \* the last client request and its response

pipeVars == << runs, pc, prNumber, bootstrapCdk, config, log, result, synthCtx,
               deployCalls, deployCtx, deployedStack, announced, queried, account >>

runVars == << now, lastFired, prevFired, invoked, s3, cache, fetchedAt, lastReq >>

vars == << pipeVars, runVars >>

PipeInit ==
    /\ runs = 0
    /\ pc = 0
    /\ prNumber = "default"
    /\ bootstrapCdk = Null
    /\ config = NoConfig
    /\ log = << >>
    /\ result = None
    /\ synthCtx = None
    /\ deployCalls = 0
    /\ deployCtx = None
    /\ deployedStack = None
    /\ announced = None
    /\ queried = None
    /\ account = {}


\* A build is triggered: parameters and environment are bound.
StartBuild ==
    /\ pc = 0
    /\ runs < MaxRuns
    /\ \E param \in ParamValues, envv \in EnvValues, b \in BootstrapValues,
          c \in ConfigFiles :
          /\ prNumber' = PipelinePrNumber(param, envv)
          /\ bootstrapCdk' = b
          /\ config' = c
    /\ runs' = runs + 1
    /\ pc' = NextStage(0, prNumber', bootstrapCdk')
    /\ log' = << >>
    /\ result' = None
    /\ synthCtx' = None
    /\ deployCalls' = 0
    /\ deployCtx' = None
    /\ deployedStack' = None
    /\ announced' = None
    /\ queried' = None
    /\ UNCHANGED << account, runVars >>

\* Control after a stage: the next stage on exit code 0, else the build fails
\* and the remaining stages are skipped.
Advance(i, exit) ==
    /\ log' = Append(log, Stages[i])
    /\ IF exit = 0
       THEN /\ pc' = NextStage(i, prNumber, bootstrapCdk)
            /\ result' = IF pc' > Len(Stages) THEN "SUCCESS" ELSE None
       ELSE /\ pc' = Len(Stages) + 1
            /\ result' = "FAILURE"

AtStage(name) == pc \in 1..Len(Stages) /\ Stages[pc] = name

\* The stages before synthesis: checkout, checkout of the app, node, npm
\* install, and the bootstrap; each runs external tools that may fail.
ToolStage ==
    /\ \E name \in {"Checkout Infrastructure Code", "Checkout App Code",
                    "Setup Node.js", "Install Dependencies", "Bootstrap CDK"} :
          AtStage(name)
    /\ \E ok \in BOOLEAN : Advance(pc, StepExit(ok))
    /\ UNCHANGED << runs, prNumber, bootstrapCdk, config, synthCtx, deployCalls,
                    deployCtx, deployedStack, announced, queried, account,
                    runVars >>

\* 'Read PR Configuration': prints the config when it exists; the exported
\* PR_CONFIG_EXISTS does not outlive the sh step.
ReadPRConfiguration ==
    /\ AtStage("Read PR Configuration")
    /\ Advance(pc, 0)
    /\ UNCHANGED << runs, prNumber, bootstrapCdk, config, synthCtx, deployCalls,
                    deployCtx, deployedStack, announced, queried, account,
                    runVars >>

\* 'Synthesize CDK': npx cdk synth --context prNumber=${PR_NUMBER} || exit 1
SynthesizeCDK ==
    /\ AtStage("Synthesize CDK")
    /\ \E ok \in BOOLEAN :
          /\ synthCtx' = IF ok THEN prNumber ELSE None
          /\ Advance(pc, StepExit(ok))
    /\ UNCHANGED << runs, prNumber, bootstrapCdk, config, deployCalls,
                    deployCtx, deployedStack, announced, queried, account,
                    runVars >>

\* 'Deploy CDK Stack': echoes STACK_NAME, then
\* npx cdk deploy --all --require-approval never --context prNumber=${PR_NUMBER}
DeployCDKStack ==
    /\ AtStage("Deploy CDK Stack")
    /\ announced' = ShellStackName(prNumber, config)
    /\ deployCalls' = deployCalls + 1
    /\ deployCtx' = prNumber
    /\ \E ok \in BOOLEAN :
          /\ IF ok
             THEN LET s == CustomerReviewsIacStack(prNumber)
                  IN  /\ deployedStack' = s.stackName
                      /\ account' = {t \in account : t.stackName # s.stackName}
                                    \cup {s}
             ELSE UNCHANGED << deployedStack, account >>
          /\ Advance(pc, StepExit(ok))
    /\ UNCHANGED << runs, prNumber, bootstrapCdk, config, synthCtx, queried,
                    runVars >>

\* 'Display Stack Outputs': describe-stacks --stack-name ${STACK_NAME} || echo
DisplayStackOutputs ==
    /\ AtStage("Display Stack Outputs")
    /\ queried' = ShellStackName(prNumber, config)
    /\ Advance(pc, 0)
    /\ UNCHANGED << runs, prNumber, bootstrapCdk, config, synthCtx, deployCalls,
                    deployCtx, deployedStack, announced, account,
                    runVars >>

\* post { always / success / failure }: the build ends.
Post ==
    /\ pc = Len(Stages) + 1
    /\ pc' = 0
    /\ UNCHANGED << runs, prNumber, bootstrapCdk, config, log, result, synthCtx,
                    deployCalls, deployCtx, deployedStack, announced, queried,
                    account,
                    runVars >>

PipeNext ==
    \/ StartBuild
    \/ ToolStage
    \/ ReadPRConfiguration
    \/ SynthesizeCDK
    \/ DeployCDKStack
    \/ DisplayStackOutputs
    \/ Post


\* ------------------------------------------------------------- the runtime

RunInit ==
    /\ now = 0
    /\ lastFired = 0
    /\ prevFired = -1
    /\ invoked = {}
    /\ s3 = [k \in Keys |-> NoObject]
    /\ cache = [k \in Keys |-> NoEntry]
    /\ fetchedAt = [k \in Keys |-> -1]
    /\ lastReq = NoRequest

\* A minute passes (the rule fires before time moves past its due minute).
Tick ==
    /\ now < MaxTime
    /\ now - lastFired < RateMinutes
    /\ now' = now + 1
    /\ UNCHANGED << lastFired, prevFired, invoked, s3, cache, fetchedAt, lastReq, pipeVars >>

\* The rule HourlyReviewsUpdate is due: it invokes its targets; the reviews
\* Lambda renders the three objects and uploads them to the bucket.
RuleFire ==
    /\ now - lastFired = RateMinutes
    /\ lastFired' = now
    /\ prevFired' = IF invoked = {} THEN -1 ELSE lastFired
    /\ invoked' = RuleTargets
    /\ \E t \in IndexContentTypes :
          s3' = IF "ReviewsLambda" \in RuleTargets THEN LambdaUpload(t) ELSE s3
    /\ UNCHANGED << now, cache, fetchedAt, lastReq, pipeVars >>

\* A client request to the Fastly service: vcl_recv, the lookup or the fetch
\* from the origin, vcl_fetch, ESI processing with its sub-requests, delivery.
ClientRequest(url) ==
    LET req     == VclRecv(url)
        beresp  == EdgeObject(cache, s3, req.url, now)
        do_esi  == VclFetch(beresp.contentType)
        subs    == IF do_esi THEN IncludeSrcs(beresp.body) ELSE {}
        touched == {req.url} \cup subs
        fetched == {k \in touched : ~CacheHit(cache, k, now)}
        stored  == {k \in fetched \cap Keys :
                      /\ VclRecv(k).action # "pass"
                      /\ OriginResponse(s3, k).status = 200}
    IN  /\ lastReq' = [ url         |-> req.url,
                        time        |-> now,
                        status      |-> beresp.status,
                        contentType |-> beresp.contentType,
                        do_esi      |-> do_esi,
                        body        |-> IF do_esi
                                        THEN EsiProcess(beresp.body, cache, s3, now)
                                        ELSE beresp.body,
                        fetched     |-> fetched,
                        priorFetch  |-> fetchedAt[req.url] ]
        /\ cache' = [k \in Keys |->
                        IF k \in stored
                        THEN [valid |-> TRUE, expires |-> now + CacheTTL,
                              resp |-> OriginResponse(s3, k)]
                        ELSE cache[k]]
        /\ fetchedAt' = [k \in Keys |->
                            IF k \in fetched /\ OriginResponse(s3, k).status = 200
                            THEN now ELSE fetchedAt[k]]
        /\ UNCHANGED << now, lastFired, prevFired, invoked, s3, pipeVars >>

Request == \E url \in ClientUrls : ClientRequest(url)

RunNext ==
    \/ Tick
    \/ RuleFire
    \/ Request

\* ------------------------------------------------------- the specifications

Init == PipeInit /\ RunInit

\* The pipeline and the account it deploys into.
Next == PipeNext

Spec == Init /\ [][Next]_vars

\* One deployed stack at run time: its rule, its Lambda, its bucket, the CDN.
SpecRuntime == Init /\ [][RunNext]_vars

\* ------------------------------------------------------------------ claims

\* C1: the rule HourlyReviewsUpdate has the reviews Lambda as its only target
\* and consecutive scheduled invocations are 60 minutes apart.
C1_HourlyTrigger ==
    /\ invoked # {} => invoked = {"ReviewsLambda"}
    /\ prevFired >= 0 => lastFired - prevFired = 60

\* C2: a request for a URL that the origin already returned less than the
\* cache TTL ago is answered from the cache, without a new origin fetch.
C2_RepeatServedFromCache ==
    ( /\ lastReq.url # None
      /\ lastReq.priorFetch >= 0
      /\ lastReq.time - lastReq.priorFetch < CacheTTL )
    => lastReq.url \notin lastReq.fetched

\* The stages of this build whose `when` lets them run, in declared order.
ExpectedStages ==
    SelectSeq(Stages,
              LAMBDA n : n = "Bootstrap CDK" => BootstrapEnabled(prNumber, bootstrapCdk))

\* C3: the stages executed so far are, in order, the first stages of the
\* declared sequence (Bootstrap CDK only when enabled); `cdk deploy` is invoked
\* at most once, and only after `cdk synth` succeeded with the same prNumber.
C3_SequentialSynthBeforeDeploy ==
    /\ Len(log) <= Len(ExpectedStages)
    /\ log = SubSeq(ExpectedStages, 1, Len(log))
    /\ deployCalls <= 1
    /\ deployCalls = 1 =>
          /\ synthCtx # None
          /\ synthCtx = deployCtx
          /\ \E i, j \in DOMAIN log :
                i < j /\ log[i] = "Synthesize CDK" /\ log[j] = "Deploy CDK Stack"

\* C3's case: a build ran all nine stages and deployed.
C3_Witness ==
    /\ result = "SUCCESS"
    /\ Len(log) = Len(Stages)
    /\ deployCalls = 1
    /\ prNumber = "7"

\* C4: every resource name of a PR deployment embeds its PR number, and
\* deployments of different PR numbers (or of a PR and the default) in the
\* account share no resource name.
C4_PrSpecificNames ==
    /\ \A s \in account :
          s.prNumber # "default" =>
              \A n \in ResourceNames(s) : Contains(n, s.prNumber)
    /\ \A s, t \in account :
          s.prNumber # t.prNumber => ResourceNames(s) \cap ResourceNames(t) = {}

\* C4's case: the default deployment and two PR deployments, one PR number a
\* prefix of the other, live in the account together.
C4_Witness ==
    \E s, t, d \in account :
        /\ s.prNumber = "7"
        /\ t.prNumber = "7-pr-12"
        /\ d.prNumber = "default"

\* C5: the stack name announced by 'Deploy CDK Stack' and queried by 'Display
\* Stack Outputs' is the name of the stack `cdk deploy` deployed in that build.
C5_AnnouncedIsDeployed ==
    /\ deployedStack # None => announced = deployedStack
    /\ (deployedStack # None /\ queried # None) => queried = deployedStack

====
